---- MODULE Spec2Model ----
(***************************************************************************)
(* PushBox: the virtual-folder synchronisation of DashboardPage            *)
(* (src/main.py) modelled as a state machine.                              *)
(*                                                                         *)
(*   SpecSync    upload_folder (the sync of one virtual folder) against a  *)
(*               local disk and a remote content API that may both fail    *)
(*               and change under the program's feet.                      *)
(*   SpecResync  syncs one after the other, in a world that stands still   *)
(*               and never fails.                                          *)
(*   SpecThumb   the thumbnail disk cache of add_file_item /               *)
(*               on_thumbnail_loaded and its background workers.           *)
(*   SpecDownload  handle_download_request, the download of one object     *)
(*               to a local path, against a remote that may fail.          *)
(***************************************************************************)
EXTENDS Integers, Sequences, FiniteSets, Bags, TLC

(***************************************************************************)
(* IEEE-754 binary64 arithmetic, as far as `int(uploaded / total_size *    *)
(* 100)` needs it.  A positive double is a pair of a 53-bit significand    *)
(* (a sequence of bits, most significant first) and the exponent of its    *)
(* leading bit.  The machine integers of the checker are too narrow for a  *)
(* 53-bit significand, hence the bit sequences.                            *)
(***************************************************************************)
MantBits == 53

RECURSIVE Pow2(_)
Pow2(n) == IF n = 0 THEN 1 ELSE 2 * Pow2(n - 1)

\* the exponent e with 2^e <= n/d < 2^(e+1), for n, d >= 1
RECURSIVE ExpOf(_, _)
ExpOf(n, d) ==
    IF n >= 2 * d THEN 1 + ExpOf(n, 2 * d)
    ELSE IF n < d THEN ExpOf(2 * n, d) - 1
    ELSE 0

\* the first k bits of the binary expansion of r/d (0 <= r < 2d), where
\* r/d = b1 . b2 b3 ...
RECURSIVE DivBits(_, _, _)
DivBits(r, d, k) ==
    IF k = 0 THEN <<>>
    ELSE IF r >= d THEN <<1>> \o DivBits(2 * (r - d), d, k - 1)
    ELSE <<0>> \o DivBits(2 * r, d, k - 1)

\* the remainder left after k bits of DivBits (already doubled)
RECURSIVE DivRem(_, _, _)
DivRem(r, d, k) ==
    IF k = 0 THEN r
    ELSE IF r >= d THEN DivRem(2 * (r - d), d, k - 1)
    ELSE DivRem(2 * r, d, k - 1)

\* bits + 1, same length; an all-ones input wraps to all zeros
RECURSIVE IncBits(_)
IncBits(bits) ==
    IF bits = <<>> THEN <<>>
    ELSE IF bits[Len(bits)] = 0 THEN SubSeq(bits, 1, Len(bits) - 1) \o <<1>>
    ELSE IncBits(SubSeq(bits, 1, Len(bits) - 1)) \o <<0>>

AllOnes(bits) == \A i \in 1..Len(bits) : bits[i] = 1

\* round a significand up: [m, e] -> the next double
RoundUp(m, e) ==
    IF AllOnes(m) THEN [m |-> <<1>> \o [i \in 1..(Len(m) - 1) |-> 0], e |-> e + 1]
    ELSE [m |-> IncBits(m), e |-> e]

\* round to nearest, ties to even: `up` the first dropped bit is 1,
\* `sticky` some later dropped bit is 1
RoundNearestEven(m, e, up, sticky) ==
    IF up /\ (sticky \/ m[Len(m)] = 1) THEN RoundUp(m, e) ELSE [m |-> m, e |-> e]

\* a / b for integers a, b >= 1: the correctly rounded quotient
FloatDiv(a, b) ==
    LET e == ExpOf(a, b)
        n == IF e < 0 THEN a * Pow2(-e) ELSE a
        d == IF e > 0 THEN b * Pow2(e) ELSE b
        m == DivBits(n, d, MantBits)
        r == DivRem(n, d, MantBits)
    IN  RoundNearestEven(m, e, r >= d, r # d /\ r # 0)

\* bits * k for a small integer k, least significant bit first
RECURSIVE MulLsb(_, _, _)
MulLsb(lsb, k, carry) ==
    IF lsb = <<>>
    THEN IF carry = 0 THEN <<>> ELSE <<carry % 2>> \o MulLsb(<<>>, k, carry \div 2)
    ELSE LET t == lsb[1] * k + carry
         IN  <<t % 2>> \o MulLsb(Tail(lsb), k, t \div 2)

Reverse(s) == [i \in 1..Len(s) |-> s[Len(s) + 1 - i]]

\* x * k for a double x and an integer k >= 1, rounded to a double
FloatMulInt(x, k) ==
    LET p    == Reverse(MulLsb(Reverse(x.m), k, 0))
        drop == Len(p) - MantBits
        kept == SubSeq(p, 1, MantBits)
        rest == SubSeq(p, MantBits + 1, Len(p))
    IN  IF drop = 0 THEN [m |-> p, e |-> x.e]
        ELSE RoundNearestEven(kept, x.e + drop,
                              rest[1] = 1,
                              \E i \in 2..Len(rest) : rest[i] = 1)

RECURSIVE BitsToInt(_)
BitsToInt(bits) ==
    IF bits = <<>> THEN 0
    ELSE 2 * BitsToInt(SubSeq(bits, 1, Len(bits) - 1)) + bits[Len(bits)]

\* int(x): truncation of a positive double (of magnitude below 2^30)
FloatToInt(x) ==
    IF x.e < 0 THEN 0 ELSE BitsToInt(SubSeq(x.m, 1, x.e + 1))

\* main.py:680  perc = int(uploaded / total_size * 100), total_size >= 1
Percent(uploaded, total_size) ==
    IF uploaded = 0 THEN 0
    ELSE FloatToInt(FloatMulInt(FloatDiv(uploaded, total_size), 100))


(***************************************************************************)
(* The world the program runs in: local paths, file contents, folders.     *)
(***************************************************************************)
Folders == {"trip", "trip_2024"}

PathA == [dir |-> "/home/a", name |-> "x.png"]
PathB == [dir |-> "/home/a", name |-> "2024_x.png"]
PathC == [dir |-> "/home/b", name |-> "x.png"]
Paths == {PathA, PathB, PathC}
Names == {p.name : p \in Paths}

\* file sizes in bytes; a file's content is a block of that many bytes
Sizes == {0, 21, 29}
Contents == [len : Sizes]

\* values of the shape of a content that stand for "no file" and "no object"
Missing == [len |-> -1]
Absent == [len |-> -2]
\* Python's None: str(None) is "None"
None == "None"

\* bounds of the exploration
MaxFiles == 3
MaxPick == 1
MaxRuns == 1
MaxResync == 2
MaxEnv == 1
MaxPool == 2
MaxFaults == 1

\* str(Path) and Path(str), main.py:526,532
PathStr(p) == p.dir \o "/" \o p.name
ParsePath(s) == CHOOSE p \in Paths : PathStr(p) = s

\* the duplicate-free sequences over S of length at most n
SeqsNoDup(S, n) ==
    {s \in UNION {[1..k -> S] : k \in 0..n} :
        \A i, j \in 1..Len(s) : s[i] = s[j] => i = j}

\* base64.b64encode(content).decode(), and the decoding the server applies
B64Encode(c) == [b64 |-> c]
B64Decode(e) == e.b64

\* the version token ("sha") the content API reports for an object's bytes
Sha(c) == [sha |-> c]

VARIABLES
    virtual_folders,  \* self.virtual_folders: folder name -> list of Path
    config,           \* config_manager.data["virtual_folders"]: name -> list of str
    auth,             \* the configuration holds a username and a token
    current_folder,   \* self.current_folder
    file_widgets,     \* self.file_widgets: file name -> widget
    cache,            \* files under self.cache_dir: key -> image
    pool,             \* self.thread_pool: the workers started and not yet run
    signals,          \* finished/error signals emitted and not yet delivered
    requests,         \* history: the thumbnail requests of the last handler
    disk,             \* local files: path -> content, or Missing
    perm,             \* local files: path -> readable
    repos,            \* remote: the repositories that exist
    objects,          \* remote: <<repo, object path>> -> content, or Absent
    pc,               \* position of the control thread inside upload_folder
    caller,           \* who called upload_folder: "button" or "add_files"
    repo_name,        \* upload_folder's local repo_name (line 640)
    idx,              \* position of `for f in files` (1-based)
    total_size,       \* upload_folder's local total_size
    uploaded,         \* upload_folder's local uploaded
    content,          \* upload_folder's local content (bytes just read)
    r_check,          \* upload_folder's local r_check: [status, sha]
    log,              \* history: what the current sync did, in order
    run,              \* number of syncs started
    quiet,            \* the current sync follows a clean one, nothing changed since
    lastClean,        \* the folder of the last sync, if it completed without a warning
    dirty,            \* disk, remote or folder changed since the last sync started
    env,              \* environment steps taken (bounded by MaxEnv)
    faults,           \* remote failures injected (bounded by MaxFaults)
    cap,              \* the bounds of this exploration: [runs, env, faults, nest]
    failed,           \* history: the cache keys whose background fetch failed
    download,         \* handle_download_request: its position and its locals
    saved,            \* local files a download can be saved as: path -> file
    stack,            \* the syncs suspended inside processEvents, innermost last
    folder_list,      \* the items of self.folder_list, in order
    main_pc,          \* commiter.py: position of main
    loop_i,           \* commiter.py: main's loop variable i
    iters,            \* commiter.py: args.iters
    target_line,      \* commiter.py: main's target_line
    text,             \* commiter.py: main's local text
    toggle_file,      \* commiter.py: the file at file_path
    git,              \* commiter.py: the git repository of the current directory
    ops,              \* commiter.py, history: file writes and git commands, in order
    exit_status       \* commiter.py: the exit status of the process (-1: running)

thumbVars == <<file_widgets, cache, pool, signals, requests>>
worldVars == <<disk, perm, repos, objects, env, faults, cap>>
syncVars == <<pc, caller, repo_name, idx, total_size, uploaded, content, r_check,
              log, run, quiet, lastClean, dirty, stack>>
folderVars == <<virtual_folders, config, auth, current_folder, folder_list>>
fetchVars == <<download, saved>>
commitVars == <<main_pc, loop_i, iters, target_line, text, toggle_file, git, ops,
                exit_status>>
vars == <<folderVars, thumbVars, worldVars, syncVars, failed, fetchVars, commitVars>>

\* a local file holding the first n bytes of content c, and no file
Prefix(c, n) == [src |-> c, upto |-> n]
NoFile == [src |-> Absent, upto |-> -1]

\* the paths the save dialog of a download can return (main.py:485): one
\* where no file exists yet, one where a file does
DestNew == "/home/a/Downloads/new.png"
DestOld == "/home/a/Downloads/old.png"
Dests == {DestNew, DestOld}
OldFile == Prefix([len |-> 5], 5)

\* the items load_folders_from_config adds to self.folder_list
\* (main.py:525-527): the folders of the stored mapping, in its order
StoredOrder == <<"trip", "trip_2024">>
FolderItems(raw_folders) == SelectSeq(StoredOrder, LAMBDA f : f \in DOMAIN raw_folders)

\* commiter.py has not been started
Untracked == <<"untracked">>
NoToggleFile == [exists |-> FALSE, readable |-> FALSE, writable |-> FALSE, content |-> <<>>]
CommiterIdle ==
    /\ main_pc = "none" /\ loop_i = 0 /\ iters = 0
    /\ target_line = <<>> /\ text = <<>>
    /\ toggle_file = NoToggleFile
    /\ git = [is_repo |-> FALSE, head |-> Untracked, index |-> Untracked]
    /\ ops = <<>>
    /\ exit_status = -1

\* handle_download_request is not running and has never run
NoDownload ==
    [pc |-> "none", repo_name |-> None, file_name |-> None, save_path |-> None,
     body |-> Absent, report |-> None]

\* the control thread is inside handle_download_request
Downloading == download.pc \notin {"none", "done"}

\* the state of the downloads when the application starts
InitFetch ==
    /\ download = NoDownload
    /\ saved = [d \in Dests |-> IF d = DestOld THEN OldFile ELSE NoFile]

(***************************************************************************)
(* Thumbnails: add_file_item, ThumbnailWorker.run, on_thumbnail_loaded.    *)
(***************************************************************************)
\* self.cache_dir / f"{folder}_{name}", main.py:585 and 611
CacheKey(folder, name) == folder \o "_" \o name

\* the picture a worker downloads from object `name` of repository `repo`
Image(repo, name) == [repo |-> repo, file |-> name]

\* what a widget's image_label can show besides a picture, and the null
\* QPixmap, as values of the shape of a picture
Loading == [repo |-> "", file |-> "Loading..."]
Invalid == [repo |-> "", file |-> "Invalid"]
NullPixmap == [repo |-> "", file |-> ""]

\* FileItemWidget(path): the label starts as "Loading..."
FileItemWidget(path) == [path |-> path, shown |-> Loading]

\* add_file_item that starts a worker whether or not the cache has the file
add_file_item_mut_always_dispatch(st, folder, path) ==
    LET key == CacheKey(folder, path.name)
        hit == key \in DOMAIN cache
        w   == FileItemWidget(path)
        r   == [folder |-> folder, name |-> path.name, hit |-> hit,
                failedBefore |-> key \in failed,
                cached |-> IF hit THEN cache[key] ELSE NullPixmap,
                dispatched |-> TRUE,
                shown |-> IF hit THEN cache[key] ELSE Loading]
        fw1 == [n \in DOMAIN st.fw \cup {path.name} |->
                   IF n = path.name
                   THEN [w EXCEPT !.shown = IF hit THEN cache[key] ELSE @]
                   ELSE st.fw[n]]
    IN  [fw |-> fw1,
         pool |-> st.pool (+) SetToBag({[repo_name |-> folder, file_name |-> path.name]}),
         req |-> st.req \cup {r}]

\* add_file_item that remembers a failed fetch and does not try again
add_file_item_mut_negative_cache(st, folder, path) ==
    LET key == CacheKey(folder, path.name)
        hit == key \in DOMAIN cache
        w   == FileItemWidget(path)
        go  == ~hit /\ key \notin failed
        r   == [folder |-> folder, name |-> path.name, hit |-> hit,
                failedBefore |-> key \in failed,
                cached |-> IF hit THEN cache[key] ELSE NullPixmap,
                dispatched |-> go,
                shown |-> IF hit THEN cache[key] ELSE Loading]
        fw1 == [n \in DOMAIN st.fw \cup {path.name} |->
                   IF n = path.name
                   THEN [w EXCEPT !.shown = IF hit THEN cache[key] ELSE @]
                   ELSE st.fw[n]]
    IN  [fw |-> fw1,
         pool |-> IF go
                  THEN st.pool (+) SetToBag({[repo_name |-> folder,
                                              file_name |-> path.name]})
                  ELSE st.pool,
         req |-> st.req \cup {r}]

\* add_file_item(path), main.py:570-601, with self.current_folder = folder;
\* st is the ui state it works on: the widget map, the pool, the requests
add_file_item(st, folder, path) ==
    LET key == CacheKey(folder, path.name)
        hit == key \in DOMAIN cache
        w   == FileItemWidget(path)
        r   == [folder |-> folder, name |-> path.name, hit |-> hit,
                failedBefore |-> key \in failed,
                cached |-> IF hit THEN cache[key] ELSE NullPixmap,
                dispatched |-> ~hit,
                shown |-> IF hit THEN cache[key] ELSE Loading]
        fw1 == [n \in DOMAIN st.fw \cup {path.name} |->
                   IF n = path.name
                   THEN [w EXCEPT !.shown = IF hit THEN cache[key] ELSE @]
                   ELSE st.fw[n]]
    IN  [fw |-> fw1,
         pool |-> IF hit THEN st.pool
                  ELSE st.pool (+) SetToBag({[repo_name |-> folder,
                                              file_name |-> path.name]}),
         req |-> st.req \cup {r}]

\* for file_path in files: self.add_file_item(file_path)
RECURSIVE AddItems(_, _, _)
AddItems(st, folder, files) ==
    IF files = <<>> THEN st
    ELSE AddItems(add_file_item(st, folder, Head(files)), folder, Tail(files))

\* on_folder_selected(folder_name), main.py:536-551; the number of workers
\* and signals in flight is capped at MaxPool
on_folder_selected(folder_name) ==
    /\ pc \in {"idle", "events"}
    /\ ~Downloading
    /\ LET st == AddItems([fw |-> <<>>, pool |-> pool, req |-> {}],
                          folder_name, virtual_folders[folder_name])
       IN  /\ BagCardinality(st.pool) + BagCardinality(signals) <= MaxPool
           /\ file_widgets' = st.fw
           /\ pool' = st.pool
           /\ requests' = st.req
    /\ current_folder' = folder_name
    /\ UNCHANGED <<virtual_folders, config, auth, cache, signals, worldVars, syncVars>>
    /\ UNCHANGED <<failed, fetchVars, folder_list, commitVars>>

\* ThumbnailWorker.run, main.py:293-311, on a pool thread: one GET of the
\* object; `finished` carries a null pixmap when the bytes are no picture
ThumbnailWorker_run(w, outcome) ==
    /\ BagIn(w, pool)
    /\ outcome = "ok" =>
          w.repo_name \in repos /\ objects[<<w.repo_name, w.file_name>>] # Absent
    /\ pool' = pool (-) SetToBag({w})
    /\ signals' = signals (+) SetToBag({
          CASE outcome = "ok" ->
                 [signal |-> "finished", filename |-> w.file_name,
                  pixmap |-> Image(w.repo_name, w.file_name)]
            [] outcome = "null" ->
                 [signal |-> "finished", filename |-> w.file_name, pixmap |-> NullPixmap]
            [] OTHER ->
                 [signal |-> "error", filename |-> w.file_name, pixmap |-> NullPixmap]})
    /\ failed' = IF outcome = "err"
                 THEN failed \cup {CacheKey(w.repo_name, w.file_name)}
                 ELSE failed
    /\ UNCHANGED <<folderVars, file_widgets, cache, requests, worldVars, syncVars,
                   fetchVars>>
    /\ UNCHANGED commitVars

\* FileItemWidget.set_thumbnail, main.py:346-353
set_thumbnail(w, pixmap) ==
    [w EXCEPT !.shown = IF pixmap # NullPixmap THEN pixmap ELSE Invalid]

\* on_thumbnail_loaded(filename, pixmap), main.py:603-612, on the control
\* thread when the queued `finished` signal is delivered
on_thumbnail_loaded(sig) ==
    /\ ~Downloading
    /\ BagIn(sig, signals)
    /\ sig.signal = "finished"
    /\ signals' = signals (-) SetToBag({sig})
    /\ file_widgets' =
          IF sig.filename \in DOMAIN file_widgets
          THEN [file_widgets EXCEPT
                   ![sig.filename] = set_thumbnail(@, sig.pixmap)]
          ELSE file_widgets
    /\ cache' =
          IF sig.pixmap # NullPixmap
          THEN LET key == CacheKey(current_folder, sig.filename)
               IN  [k \in DOMAIN cache \cup {key} |->
                       IF k = key THEN sig.pixmap ELSE cache[k]]
          ELSE cache
    /\ UNCHANGED <<folderVars, pool, requests, worldVars, syncVars>>
    /\ UNCHANGED <<failed, fetchVars, commitVars>>

\* the slot of the `error` signal, main.py:600: prints, changes nothing
on_thumbnail_error(sig) ==
    /\ ~Downloading
    /\ BagIn(sig, signals)
    /\ sig.signal = "error"
    /\ signals' = signals (-) SetToBag({sig})
    /\ UNCHANGED <<folderVars, file_widgets, cache, pool, requests, worldVars, syncVars>>
    /\ UNCHANGED <<failed, fetchVars, commitVars>>

\* load_folders_from_config, main.py:522-527
load_folders_from_config(raw_folders) ==
    [folder \in DOMAIN raw_folders |->
        [i \in 1..Len(raw_folders[folder]) |-> ParsePath(raw_folders[folder][i])]]

\* the json-safe mapping save_folders_to_config stores, main.py:529-534
save_folders_to_config(vf) ==
    [folder \in DOMAIN vf |-> [i \in 1..Len(vf[folder]) |-> PathStr(vf[folder][i])]]

AllKeys == {CacheKey(f, n) : f \in Folders, n \in Names}
AllImages == {Image(f, n) : f \in Folders, n \in Names}

\* the stored folders the thumbnail runs start from
ThumbFolders ==
    [{"trip"} -> {<<PathA, PathB>>, <<PathB>>, <<PathA, PathC>>}]
    \cup {[f \in Folders |-> IF f = "trip" THEN s ELSE t] :
            s \in {<<PathA, PathB>>, <<PathB>>}, t \in {<<PathC>>, <<>>}}

\* upload_folder's locals before they are assigned
NoResponse == [status |-> 0, sha |-> Sha(Absent)]

\* the sync is not running and has never run
SyncIdle ==
    /\ pc = "idle" /\ caller = None /\ repo_name = None
    /\ idx = 0 /\ total_size = 0 /\ uploaded = 0
    /\ content = Absent /\ r_check = NoResponse
    /\ log = <<>> /\ run = 0
    /\ quiet = FALSE /\ lastClean = None /\ dirty = FALSE
    /\ stack = <<>>

\* DashboardPage.__init__, main.py:393-453, over a stored configuration
InitThumb ==
    /\ config \in {save_folders_to_config(vf) : vf \in ThumbFolders}
    /\ virtual_folders = load_folders_from_config(config)
    /\ auth = TRUE
    /\ current_folder = None
    /\ file_widgets = <<>>
    /\ cache = <<>>
    /\ pool = EmptyBag
    /\ signals = EmptyBag
    /\ requests = {}
    /\ disk = [p \in Paths |-> [len |-> 21]]
    /\ perm = [p \in Paths |-> TRUE]
    /\ repos = DOMAIN virtual_folders
    /\ objects = [o \in Folders \X Names |->
                    IF o[1] \in DOMAIN virtual_folders
                       /\ \E i \in 1..Len(virtual_folders[o[1]]) :
                             virtual_folders[o[1]][i].name = o[2]
                    THEN [len |-> 21] ELSE Absent]
    /\ env = 0
    /\ faults = 0
    /\ cap = [runs |-> 0, env |-> 0, faults |-> 0, nest |-> 0]
    /\ failed = {}
    /\ InitFetch
    /\ SyncIdle
    /\ folder_list = FolderItems(config)
    /\ CommiterIdle

NextThumb ==
    \/ \E f \in DOMAIN virtual_folders : on_folder_selected(f)
    \/ \E w \in BagToSet(pool), o \in {"ok", "null", "err"} : ThumbnailWorker_run(w, o)
    \/ \E sig \in BagToSet(signals) : on_thumbnail_loaded(sig)
    \/ \E sig \in BagToSet(signals) : on_thumbnail_error(sig)

SpecThumb == InitThumb /\ [][NextThumb]_vars

\* C8: a thumbnail request made while a file exists at the cache key
\* folder_filename is served from that file: the widget shows the cached
\* picture and no worker (hence no network call) is dispatched.
C8_CacheHitServedFromDisk ==
    \A r \in requests :
        r.hit => r.shown = r.cached /\ ~r.dispatched

\* a request that hit the cache has been made
C8_Witness ==
    \E r \in requests : r.hit /\ r.cached \in AllImages

\* a step in which a background fetch fails (the worker emits `error`) or
\* its failure is delivered to the control thread
FetchFailureStep ==
    \/ failed' # failed
    \/ \E sig \in BagToSet(signals) :
          sig.signal = "error" /\ signals' = signals (-) SetToBag({sig})

\* C12: a background fetch that fails creates no file under the cache
\* directory, neither when the worker fails nor when the failure is
\* delivered, and a later request for a key whose fetch failed, the cache
\* still holding no file at that key, starts a worker again.
C12_FailedFetchNotCached ==
    /\ [](\A r \in requests : (r.failedBefore /\ ~r.hit) => r.dispatched)
    /\ [][FetchFailureStep => cache' = cache]_vars

\* a request made after the fetch for its key failed, with no file at the
\* key, and the worker it started
C12_Witness ==
    \E r \in requests :
        /\ r.failedBefore /\ ~r.hit /\ r.dispatched
        /\ CacheKey(r.folder, r.name) \notin DOMAIN cache
        /\ BagIn([repo_name |-> r.folder, file_name |-> r.name], pool)
        /\ signals = EmptyBag

(***************************************************************************)
(* The sync: DashboardPage.upload_folder, main.py:625-684, step by step.   *)
(* Each blocking call (a request, a file read) is one step; the disk and   *)
(* the remote may change between two steps.                                *)
(***************************************************************************)
\* one entry of the history of a sync
Ev(op, i, val, what, bytes, sha) ==
    [op |-> op, i |-> i, val |-> val, what |-> what, bytes |-> bytes, sha |-> sha]

NoSha == Sha(Absent)
Request(op, i, status) == Ev(op, i, status, "", Absent, NoSha)
Warn(i, what) == Ev("warn", i, 0, what, Absent, NoSha)
Report(what) == Ev("report", 0, 0, what, Absent, NoSha)
SetValue(v) == Ev("progress", 0, v, "", Absent, NoSha)
Raised(i, what) == Ev("raise", i, 0, what, Absent, NoSha)

\* the responses a failing remote gives instead of the truthful one:
\* 0 stands for an exception raised by requests (no response), 401 for
\* rejected credentials, 500 for an error of the server
FaultStatuses == {0, 401, 500}

\* the status a request can return, `truth` being the truthful one
Statuses(truth) ==
    {truth} \cup (IF faults < cap.faults THEN FaultStatuses ELSE {})

CountFault(status, truth) ==
    faults' = IF status = truth THEN faults ELSE faults + 1

\* sum(f.stat().st_size for f in files), on files that all exist
RECURSIVE SumSizes(_)
SumSizes(files) ==
    IF files = <<>> THEN 0 ELSE disk[Head(files)].len + SumSizes(Tail(files))

\* upload_folder iterating the folder's list from its end
Files_mut_reversed == Reverse(virtual_folders[repo_name])

\* the list upload_folder iterates: the folder's own list object
Files == virtual_folders[repo_name]

\* an exception nobody in upload_folder catches: add_files_to_folder
\* swallows it (main.py:565-568), the button's slot lets it terminate
\* the application
Unhandled(i, what) ==
    /\ log' = Append(log, Raised(i, what))
    /\ pc' = IF caller = "add_files" THEN "idle" ELSE "crashed"

\* the locals of the running upload_folder, kept while a slot called from
\* its processEvents runs; `files` is the list it iterates, as it was
Frame ==
    [caller |-> caller, repo_name |-> repo_name, idx |-> idx,
     total_size |-> total_size, uploaded |-> uploaded, content |-> content,
     r_check |-> r_check, log |-> log, quiet |-> quiet,
     files |-> virtual_folders[repo_name]]

\* a slot that starts a sync can run: the control thread is idle, or it is
\* inside the processEvents of a running sync (main.py:682)
CanStartSync ==
    \/ pc = "idle" /\ stack = <<>>
    \/ pc = "events" /\ Len(stack) < cap.nest

\* UploadEnter without the `if not files` return of main.py:629-631
UploadEnter_mut_no_empty_return(vf, who, changed) ==
    /\ run < cap.runs
    /\ run' = run + 1
    /\ stack' = IF pc = "events" THEN Append(stack, Frame) ELSE stack
    /\ caller' = who
    /\ repo_name' = current_folder
    /\ quiet' = (lastClean = current_folder /\ ~dirty /\ ~changed)
    /\ dirty' = FALSE
    /\ lastClean' = None
    /\ idx' = 0 /\ total_size' = 0 /\ uploaded' = 0
    /\ content' = Absent /\ r_check' = NoResponse
    /\ IF ~auth
       THEN log' = <<Report("Auth missing")>> /\ pc' = "idle"
       ELSE log' = <<>> /\ pc' = "provision"

\* main.py:627-642: the checks before the first request.  `vf` is the
\* folder mapping at the call, `changed` whether the caller just changed it.
UploadEnter(vf, who, changed) ==
    /\ run < cap.runs
    /\ run' = run + 1
    /\ stack' = IF pc = "events" THEN Append(stack, Frame) ELSE stack
    /\ caller' = who
    /\ repo_name' = current_folder
    /\ quiet' = (lastClean = current_folder /\ ~dirty /\ ~changed)
    /\ dirty' = FALSE
    /\ lastClean' = None
    /\ idx' = 0 /\ total_size' = 0 /\ uploaded' = 0
    /\ content' = Absent /\ r_check' = NoResponse
    /\ IF vf[current_folder] = <<>>
       THEN log' = <<Report("Empty")>> /\ pc' = "idle"
       ELSE IF ~auth
       THEN log' = <<Report("Auth missing")>> /\ pc' = "idle"
       ELSE log' = <<>> /\ pc' = "provision"

\* upload_folder called on the current folder, main.py:625.  upload_btn,
\* whose slot it is (main.py:451), is disabled while the selected folder
\* is empty (main.py:546): on an empty folder the method is reached by a
\* direct call only.  A click processed by the processEvents of a running
\* sync starts a sync inside that sync.
upload_folder ==
    /\ CanStartSync
    /\ current_folder # None
    /\ UploadEnter(virtual_folders, "button", FALSE)
    /\ UNCHANGED <<folderVars, thumbVars, worldVars>>
    /\ UNCHANGED <<failed, fetchVars, commitVars>>

\* NewPaths without the `path not in` test of main.py:559
NewPaths_mut_no_membership_test(have, files) == files

\* files not yet in the list, in dialog order (main.py:557-560)
RECURSIVE NewPaths(_, _)
NewPaths(have, files) ==
    IF files = <<>> THEN <<>>
    ELSE IF \E i \in 1..Len(have) : have[i] = Head(files)
         THEN NewPaths(have, Tail(files))
         ELSE <<Head(files)>> \o NewPaths(Append(have, Head(files)), Tail(files))

\* add_files_to_folder, main.py:553-568, with the dialog returning `files`
add_files_to_folder(files) ==
    /\ CanStartSync
    /\ current_folder # None
    /\ files # <<>>
    /\ LET new == NewPaths(virtual_folders[current_folder], files)
           vf  == [virtual_folders EXCEPT ![current_folder] = @ \o new]
           st  == AddItems([fw |-> file_widgets, pool |-> pool, req |-> {}],
                           current_folder, new)
       IN  /\ BagCardinality(st.pool) + BagCardinality(signals) <= MaxPool
           /\ virtual_folders' = vf
           /\ config' = save_folders_to_config(vf)
           /\ file_widgets' = st.fw
           /\ pool' = st.pool
           /\ requests' = st.req
           /\ UploadEnter(vf, "add_files", new # <<>>)
    /\ UNCHANGED <<auth, current_folder, cache, signals, worldVars>>
    /\ UNCHANGED <<failed, fetchVars, folder_list, commitVars>>

\* what the user types in the QInputDialog: blanks and words
Blank == " "
DialogTexts ==
    {<<>>, <<Blank>>, <<"trip">>, <<Blank, "trip", Blank>>,
     <<"trip_2024">>, <<"trip_2024", Blank>>}

\* str.strip(), main.py:616-617
RECURSIVE LStrip(_)
LStrip(t) == IF t # <<>> /\ Head(t) = Blank THEN LStrip(Tail(t)) ELSE t
RECURSIVE Concat(_)
Concat(t) == IF t = <<>> THEN "" ELSE Head(t) \o Concat(Tail(t))
Strip(t) == Concat(Reverse(LStrip(Reverse(LStrip(t)))))

\* create_virtual_folder, main.py:614-623, with the dialog returning
\* (entered, ok)
create_virtual_folder(entered, ok) ==
    /\ pc \in {"idle", "events"}
    /\ ~Downloading
    /\ LET folder_name == Strip(entered)
       IN  IF ~ok \/ folder_name = ""
           THEN UNCHANGED <<virtual_folders, folder_list, config>>
           ELSE IF folder_name \in DOMAIN virtual_folders
           THEN UNCHANGED <<virtual_folders, folder_list, config>>
           ELSE LET vf == [f \in DOMAIN virtual_folders \cup {folder_name} |->
                              IF f = folder_name THEN <<>> ELSE virtual_folders[f]]
                IN  /\ virtual_folders' = vf
                    /\ folder_list' = Append(folder_list, folder_name)
                    /\ config' = save_folders_to_config(vf)
    /\ UNCHANGED <<auth, current_folder, thumbVars, worldVars, syncVars>>
    /\ UNCHANGED <<failed, fetchVars, commitVars>>

\* main.py:644-645  r = requests.get(repo_url)
CheckRepo(status) ==
    /\ pc = "provision"
    /\ status \in Statuses(IF repo_name \in repos THEN 200 ELSE 404)
    /\ CountFault(status, IF repo_name \in repos THEN 200 ELSE 404)
    /\ IF status = 0
       THEN /\ log' = log \o <<Request("repo_get", 0, 0), Report("Failed")>>
            /\ pc' = "idle"
       ELSE /\ log' = Append(log, Request("repo_get", 0, status))
            /\ pc' = IF status = 404 THEN "create" ELSE "total"
    /\ UNCHANGED <<folderVars, thumbVars, disk, perm, repos, objects, env, cap,
                   caller, repo_name, idx, total_size, uploaded, content, r_check,
                   run, quiet, lastClean, dirty>>
    /\ UNCHANGED <<failed, fetchVars, stack, commitVars>>

\* main.py:646-654  r_create = requests.post(...)
CreateRepo(status) ==
    /\ pc = "create"
    /\ status \in Statuses(IF repo_name \in repos THEN 422 ELSE 201)
    /\ CountFault(status, IF repo_name \in repos THEN 422 ELSE 201)
    /\ repos' = IF status = 201 THEN repos \cup {repo_name} ELSE repos
    /\ IF status \in {200, 201}
       THEN /\ log' = Append(log, Request("repo_create", 0, status))
            /\ pc' = "total"
       ELSE /\ log' = log \o <<Request("repo_create", 0, status), Report("Failed")>>
            /\ pc' = "idle"
    /\ UNCHANGED <<folderVars, thumbVars, disk, perm, objects, env, cap,
                   caller, repo_name, idx, total_size, uploaded, content, r_check,
                   run, quiet, lastClean, dirty>>
    /\ UNCHANGED <<failed, fetchVars, stack, commitVars>>

\* main.py:655-657  total_size, uploaded = 0, self.progress.setValue(0)
ComputeTotal ==
    /\ pc = "total"
    /\ IF \E i \in 1..Len(Files) : disk[Files[i]] = Missing
       THEN /\ Unhandled(0, "FileNotFoundError")
            /\ UNCHANGED <<total_size, uploaded, idx>>
       ELSE /\ total_size' = SumSizes(Files)
            /\ uploaded' = 0
            /\ idx' = 1
            /\ log' = Append(log, SetValue(0))
            /\ pc' = "read"
    /\ UNCHANGED <<folderVars, thumbVars, worldVars,
                   caller, repo_name, content, r_check, run, quiet, lastClean, dirty>>
    /\ UNCHANGED <<failed, fetchVars, stack, commitVars>>

\* main.py:658-665  the loop head and content = f.read_bytes()
ReadFile ==
    /\ pc = "read"
    /\ idx <= Len(Files)
    /\ LET f == Files[idx]
       IN  IF disk[f] = Missing \/ ~perm[f]
           THEN /\ log' = log \o <<Ev("read", idx, 0, "failed", Absent, NoSha),
                                   Warn(idx, "Read Error")>>
                /\ idx' = idx + 1
                /\ UNCHANGED <<pc, content>>
           ELSE /\ log' = Append(log, Ev("read", idx, 0, "ok", disk[f], NoSha))
                /\ content' = disk[f]
                /\ pc' = "check"
                /\ UNCHANGED idx
    /\ UNCHANGED <<folderVars, thumbVars, worldVars,
                   caller, repo_name, total_size, uploaded, r_check,
                   run, quiet, lastClean, dirty>>
    /\ UNCHANGED <<failed, fetchVars, stack, commitVars>>

\* the object a file is stored as: quote(f.name), main.py:665-666
ObjectOf(f) == <<repo_name, f.name>>

\* main.py:668  r_check = requests.get(url)
CheckFile(status) ==
    /\ pc = "check"
    /\ LET o     == ObjectOf(Files[idx])
           truth == IF repo_name \in repos /\ objects[o] # Absent THEN 200 ELSE 404
       IN  /\ status \in Statuses(truth)
           /\ CountFault(status, truth)
           /\ IF status = 0
              THEN /\ log' = log \o <<Request("get", idx, 0), Warn(idx, "Network Error")>>
                   /\ idx' = idx + 1
                   /\ pc' = "read"
                   /\ UNCHANGED r_check
              ELSE /\ r_check' = [status |-> status,
                                  sha |-> IF status = 200 THEN Sha(objects[o]) ELSE NoSha]
                   /\ log' = Append(log, Ev("get", idx, status, "", Absent,
                                            IF status = 200 THEN Sha(objects[o]) ELSE NoSha))
                   /\ pc' = "put"
                   /\ UNCHANGED idx
    /\ UNCHANGED <<folderVars, thumbVars, disk, perm, repos, objects, env, cap,
                   caller, repo_name, total_size, uploaded, content,
                   run, quiet, lastClean, dirty>>
    /\ UNCHANGED <<failed, fetchVars, stack, commitVars>>

\* main.py:664,669-671  the body of the PUT
Payload ==
    [content |-> B64Encode(content),
     sha |-> IF r_check.status = 200 THEN r_check.sha ELSE NoSha]

\* what the content API answers to a PUT: the write is accepted only with
\* the object's current token (none for a new object)
PutTruth(o, payload) ==
    IF repo_name \notin repos THEN 404
    ELSE IF objects[o] = Absent THEN (IF payload.sha = NoSha THEN 201 ELSE 422)
    ELSE IF payload.sha = Sha(objects[o]) THEN 200
    ELSE 409

\* main.py:672-678  r_file = requests.put(url, json=payload)
PutFile(status) ==
    /\ pc = "put"
    /\ LET o == ObjectOf(Files[idx])
       IN  /\ status \in Statuses(PutTruth(o, Payload))
           /\ CountFault(status, PutTruth(o, Payload))
           /\ objects' = IF status \in {200, 201}
                         THEN [objects EXCEPT ![o] = B64Decode(Payload.content)]
                         ELSE objects
           /\ LET put == Ev("put", idx, status, "", content, Payload.sha)
              IN  IF status = 0
                  THEN /\ log' = log \o <<put, Warn(idx, "Network Error")>>
                       /\ idx' = idx + 1 /\ pc' = "read"
                  ELSE IF status \notin {200, 201}
                  THEN /\ log' = log \o <<put, Warn(idx, "Upload Failed")>>
                       /\ idx' = idx + 1 /\ pc' = "read"
                  ELSE /\ log' = Append(log, put)
                       /\ pc' = "advance"
                       /\ UNCHANGED idx
    /\ UNCHANGED <<folderVars, thumbVars, disk, perm, repos, env, cap,
                   caller, repo_name, total_size, uploaded, content, r_check,
                   run, quiet, lastClean, dirty>>
    /\ UNCHANGED <<failed, fetchVars, stack, commitVars>>

\* main.py:679-681  uploaded += f.stat().st_size; perc = ...; setValue(perc)
Advance ==
    /\ pc = "advance"
    /\ LET f == Files[idx]
       IN  IF disk[f] = Missing
           THEN Unhandled(idx, "FileNotFoundError") /\ UNCHANGED <<uploaded, idx>>
           ELSE IF total_size = 0
           THEN /\ uploaded' = uploaded + disk[f].len
                /\ Unhandled(idx, "ZeroDivisionError")
                /\ UNCHANGED idx
           ELSE /\ uploaded' = uploaded + disk[f].len
                /\ log' = Append(log, SetValue(Percent(uploaded + disk[f].len, total_size)))
                /\ idx' = idx + 1
                /\ pc' = "events"
    /\ UNCHANGED <<folderVars, thumbVars, worldVars,
                   caller, repo_name, total_size, content, r_check,
                   run, quiet, lastClean, dirty>>
    /\ UNCHANGED <<failed, fetchVars, stack, commitVars>>

\* main.py:682  QApplication.processEvents() returns
processEvents ==
    /\ pc = "events"
    /\ pc' = "read"
    /\ UNCHANGED <<folderVars, thumbVars, worldVars,
                   caller, repo_name, idx, total_size, uploaded, content, r_check,
                   log, run, quiet, lastClean, dirty>>
    /\ UNCHANGED <<failed, fetchVars, stack, commitVars>>

Warnings == SelectSeq(log, LAMBDA e : e.op = "warn")

\* main.py:683-684  the loop is over
Finish ==
    /\ pc = "read"
    /\ idx > Len(Files)
    /\ log' = log \o <<SetValue(100), Report("Backup Complete")>>
    /\ lastClean' = IF Warnings = <<>> THEN repo_name ELSE None
    /\ pc' = "idle"
    /\ UNCHANGED <<folderVars, thumbVars, worldVars,
                   caller, repo_name, idx, total_size, uploaded, content, r_check,
                   run, quiet, dirty>>
    /\ UNCHANGED <<failed, fetchVars, stack, commitVars>>

(***************************************************************************)
(* The environment: other processes on the disk, other clients of the      *)
(* remote.  A change is taken right before a step of the sync that reads   *)
(* what it changes; taken any earlier it leads to the same read.           *)
(***************************************************************************)
EnvStep ==
    /\ env < cap.env
    /\ env' = env + 1
    /\ dirty' = TRUE
    /\ UNCHANGED <<folderVars, thumbVars, faults, cap,
                   pc, caller, repo_name, idx, total_size, uploaded, content, r_check,
                   log, run, quiet, lastClean>>
    /\ UNCHANGED <<failed, fetchVars, stack, commitVars>>

\* the files the next step of the sync reads or stats
FilesRead ==
    IF pc = "total" THEN {Files[i] : i \in 1..Len(Files)}
    ELSE IF pc = "advance" \/ (pc = "read" /\ idx <= Len(Files)) THEN {Files[idx]}
    ELSE {}

\* another process rewrites a file
EnvWrite(p, c) ==
    /\ EnvStep
    /\ p \in FilesRead
    /\ disk[p] # c
    /\ disk' = [disk EXCEPT ![p] = c]
    /\ UNCHANGED <<perm, repos, objects>>

\* another process deletes a file
EnvDelete(p) ==
    /\ EnvStep
    /\ p \in FilesRead
    /\ disk[p] # Missing
    /\ disk' = [disk EXCEPT ![p] = Missing]
    /\ UNCHANGED <<perm, repos, objects>>

\* another process takes the read permission away, or gives it back
EnvChmod(p) ==
    /\ EnvStep
    /\ p \in FilesRead
    /\ disk[p] # Missing
    /\ perm' = [perm EXCEPT ![p] = ~@]
    /\ UNCHANGED <<disk, repos, objects>>

\* another client creates the repository
EnvCreateRepo ==
    /\ EnvStep
    /\ pc \in {"provision", "create"}
    /\ repo_name \notin repos
    /\ repos' = repos \cup {repo_name}
    /\ UNCHANGED <<disk, perm, objects>>

\* another client writes or deletes the object the sync is about to
\* request
EnvRemoteWrite(c) ==
    /\ EnvStep
    /\ pc \in {"check", "put"}
    /\ repo_name \in repos
    /\ objects[ObjectOf(Files[idx])] # c
    /\ objects' = [objects EXCEPT ![ObjectOf(Files[idx])] = c]
    /\ UNCHANGED <<disk, perm, repos>>

\* every thumbnail of every folder already on disk
WarmCache ==
    [k \in AllKeys |-> CHOOSE im \in AllImages : CacheKey(im.repo, im.file) = k]

\* DashboardPage.__init__ over the stored configuration `config`, on a
\* machine whose thumbnail cache is warm and whose remote account holds no
\* repository
InitMachine ==
    /\ virtual_folders = load_folders_from_config(config)
    /\ auth \in BOOLEAN
    /\ current_folder = None
    /\ file_widgets = <<>>
    /\ cache = WarmCache
    /\ pool = EmptyBag
    /\ signals = EmptyBag
    /\ requests = {}
    /\ disk = [p \in Paths |->
                 IF p = PathA THEN [len |-> 29]
                 ELSE IF p = PathB THEN [len |-> 21] ELSE [len |-> 0]]
    /\ perm = [p \in Paths |-> TRUE]
    /\ repos = {}
    /\ objects = [o \in Folders \X Names |-> Absent]
    /\ env = 0
    /\ faults = 0
    /\ failed = {}
    /\ InitFetch
    /\ SyncIdle
    /\ folder_list = FolderItems(config)

\* DashboardPage.__init__ over a stored configuration of one folder
InitWorld ==
    /\ config \in {save_folders_to_config([f \in {"trip"} |-> s]) :
                   s \in SeqsNoDup(Paths, MaxFiles)}
    /\ InitMachine
    /\ CommiterIdle

\* one sync, in a world that changes and fails
InitSync ==
    /\ InitWorld
    /\ cap = [runs |-> MaxRuns, env |-> MaxEnv, faults |-> MaxFaults, nest |-> 0]

\* syncs one after the other, in a world that stands still and never fails
InitResync ==
    /\ InitWorld
    /\ cap = [runs |-> MaxResync, env |-> 0, faults |-> 0, nest |-> 0]

NextSync ==
    \/ \E f \in DOMAIN virtual_folders : on_folder_selected(f)
    \/ upload_folder
    \/ \E files \in SeqsNoDup(Paths, MaxPick) : add_files_to_folder(files)
    \/ \E status \in {200, 404} \cup FaultStatuses : CheckRepo(status)
    \/ \E status \in {201, 422} \cup FaultStatuses : CreateRepo(status)
    \/ ComputeTotal
    \/ ReadFile
    \/ \E status \in {200, 404} \cup FaultStatuses : CheckFile(status)
    \/ \E status \in {200, 201, 404, 409, 422} \cup FaultStatuses : PutFile(status)
    \/ Advance
    \/ processEvents
    \/ Finish
    \/ \E p \in Paths, c \in Contents : EnvWrite(p, c)
    \/ \E p \in Paths : EnvDelete(p)
    \/ \E p \in Paths : EnvChmod(p)
    \/ EnvCreateRepo
    \/ \E c \in Contents \cup {Absent} : EnvRemoteWrite(c)

SpecSync == InitSync /\ [][NextSync]_vars

NextResync ==
    \/ \E f \in DOMAIN virtual_folders : on_folder_selected(f)
    \/ upload_folder
    \/ \E files \in SeqsNoDup(Paths, MaxPick) : add_files_to_folder(files)
    \/ \E status \in {200, 404} : CheckRepo(status)
    \/ \E status \in {201, 422} : CreateRepo(status)
    \/ ComputeTotal
    \/ ReadFile
    \/ \E status \in {200, 404} : CheckFile(status)
    \/ \E status \in {200, 201, 404, 409, 422} : PutFile(status)
    \/ Advance
    \/ processEvents
    \/ Finish

SpecResync == InitResync /\ [][NextResync]_vars

\* the slot called from processEvents has returned (main.py:682): the
\* suspended upload_folder goes on with its own locals, over the list
\* object self.virtual_folders[repo_name] as it is now
NestedReturn ==
    /\ pc = "idle"
    /\ stack # <<>>
    /\ LET fr == stack[Len(stack)]
       IN  /\ caller' = fr.caller
           /\ repo_name' = fr.repo_name
           /\ idx' = fr.idx
           /\ total_size' = fr.total_size
           /\ uploaded' = fr.uploaded
           /\ content' = fr.content
           /\ r_check' = fr.r_check
           /\ log' = fr.log
           /\ quiet' = fr.quiet
    /\ stack' = SubSeq(stack, 1, Len(stack) - 1)
    /\ pc' = "events"
    /\ UNCHANGED <<folderVars, thumbVars, worldVars, run, lastClean, dirty>>
    /\ UNCHANGED <<failed, fetchVars, commitVars>>

\* how many times files are added
MaxAdds == 3

\* the dashboard over an empty configuration: folders are created and
\* files added, each addition followed by its sync
InitFolders ==
    /\ config = [f \in {} |-> <<>>]
    /\ InitMachine
    /\ CommiterIdle
    /\ cap = [runs |-> MaxAdds, env |-> 0, faults |-> 0, nest |-> 0]

NextFolders ==
    \/ \E entered \in DialogTexts, ok \in BOOLEAN : create_virtual_folder(entered, ok)
    \/ \E f \in DOMAIN virtual_folders : on_folder_selected(f)
    \/ \E files \in SeqsNoDup(Paths, MaxPick) : add_files_to_folder(files)
    \/ \E status \in {200, 404} : CheckRepo(status)
    \/ \E status \in {201, 422} : CreateRepo(status)
    \/ ComputeTotal
    \/ ReadFile
    \/ \E status \in {200, 404} : CheckFile(status)
    \/ \E status \in {200, 201, 404, 409, 422} : PutFile(status)
    \/ Advance
    \/ processEvents
    \/ Finish

SpecFolders == InitFolders /\ [][NextFolders]_vars

\* how deep the clicks handled by processEvents may nest syncs
MaxNest == 1

\* syncs started by clicks that a running sync's processEvents handles, in
\* a world that stands still and never fails
InitNested ==
    /\ InitWorld
    /\ cap = [runs |-> MaxNest + 1, env |-> 0, faults |-> 0, nest |-> MaxNest]

NextNested ==
    \/ \E f \in DOMAIN virtual_folders : on_folder_selected(f)
    \/ upload_folder
    \/ \E files \in SeqsNoDup(Paths, MaxPick) : add_files_to_folder(files)
    \/ \E status \in {200, 404} : CheckRepo(status)
    \/ \E status \in {201, 422} : CreateRepo(status)
    \/ ComputeTotal
    \/ ReadFile
    \/ \E status \in {200, 404} : CheckFile(status)
    \/ \E status \in {200, 201, 404, 409, 422} : PutFile(status)
    \/ Advance
    \/ processEvents
    \/ Finish
    \/ NestedReturn

SpecNested == InitNested /\ [][NextNested]_vars


(***************************************************************************)
(* The download: DashboardPage.handle_download_request, main.py:470-518,   *)
(* step by step.  The slot runs on the control thread and processes no     *)
(* event until it returns.                                                 *)
(***************************************************************************)
\* iter_content(chunk_size=8192), main.py:511
ChunkSize == 8192

\* handle_download_request returns, having shown `what` (None: nothing)
DownloadReturn(what) ==
    download' = [download EXCEPT !.pc = "done", !.report = what]

\* an exception handle_download_request does not catch: it leaves the slot
\* and ends the application
DownloadRaise(what) ==
    download' = [download EXCEPT !.pc = "crashed", !.report = what]

\* main.py:470-494: the download button of the widget of file_path is
\* clicked; the save dialog returns save_path (None: cancelled)
handle_download_request(file_path, save_path) ==
    /\ pc = "idle"
    /\ ~Downloading
    /\ current_folder # None
    /\ \E n \in DOMAIN file_widgets : file_widgets[n].path = file_path
    /\ download' =
          IF ~auth
          THEN [NoDownload EXCEPT !.pc = "done", !.report = "Auth Missing"]
          ELSE IF save_path = None
          THEN [NoDownload EXCEPT !.pc = "done"]
          ELSE [NoDownload EXCEPT !.pc = "meta", !.repo_name = current_folder,
                                  !.file_name = file_path.name,
                                  !.save_path = save_path]
    /\ UNCHANGED <<folderVars, thumbVars, worldVars, syncVars, failed, saved>>
    /\ UNCHANGED commitVars

\* the object the download asks for, main.py:489-492
DownloadObject == <<download.repo_name, download.file_name>>

\* what the remote truthfully answers to a GET of that object
DownloadTruth ==
    IF download.repo_name \in repos /\ objects[DownloadObject] # Absent
    THEN 200 ELSE 404

\* main.py:496-504  meta_response = requests.get(url); has_url: the answer
\* holds a download_url
DownloadMeta(status, has_url) ==
    /\ download.pc = "meta"
    /\ status \in Statuses(DownloadTruth)
    /\ has_url \/ (status = 200 /\ faults < cap.faults)
    /\ faults' = IF status = DownloadTruth /\ has_url THEN faults ELSE faults + 1
    /\ IF status # 200 THEN DownloadReturn("Download Failed")
       ELSE IF ~has_url THEN DownloadReturn("Download Error")
       ELSE download' = [download EXCEPT !.pc = "content"]
    /\ UNCHANGED <<folderVars, thumbVars, disk, perm, repos, objects, env, cap,
                   syncVars, failed, saved>>
    /\ UNCHANGED commitVars

\* DownloadContent that opens the destination before it asks for the
\* content
DownloadContent_mut_open_first(status) ==
    /\ download.pc = "content"
    /\ status \in Statuses(DownloadTruth)
    /\ CountFault(status, DownloadTruth)
    /\ saved' = [saved EXCEPT ![download.save_path] = Prefix(Absent, 0)]
    /\ IF status # 200 THEN DownloadReturn("Download Failed")
       ELSE download' = [download EXCEPT !.pc = "open",
                                         !.body = objects[DownloadObject]]
    /\ UNCHANGED <<folderVars, thumbVars, disk, perm, repos, objects, env, cap,
                   syncVars, failed>>
    /\ UNCHANGED commitVars

\* main.py:507-508  content_response = requests.get(download_url, stream=True)
DownloadContent(status) ==
    /\ download.pc = "content"
    /\ status \in Statuses(DownloadTruth)
    /\ CountFault(status, DownloadTruth)
    /\ IF status # 200 THEN DownloadReturn("Download Failed")
       ELSE download' = [download EXCEPT !.pc = "open",
                                         !.body = objects[DownloadObject]]
    /\ UNCHANGED <<folderVars, thumbVars, disk, perm, repos, objects, env, cap,
                   syncVars, failed, saved>>
    /\ UNCHANGED commitVars

\* main.py:510  open(save_path, 'wb'): creates the file or empties it
DownloadOpen(ok) ==
    /\ download.pc = "open"
    /\ ok \/ faults < cap.faults
    /\ faults' = IF ok THEN faults ELSE faults + 1
    /\ IF ok
       THEN /\ saved' = [saved EXCEPT ![download.save_path] = Prefix(download.body, 0)]
            /\ download' = [download EXCEPT !.pc = "stream"]
       ELSE /\ DownloadRaise("OSError")
            /\ UNCHANGED saved
    /\ UNCHANGED <<folderVars, thumbVars, disk, perm, repos, objects, env, cap,
                   syncVars, failed>>
    /\ UNCHANGED commitVars

\* the bytes written to save_path so far
Written == saved[download.save_path].upto

Min(a, b) == IF a < b THEN a ELSE b

\* DownloadChunk with `except: pass` in place of the report of main.py:516-517
DownloadChunk_mut_silent_failure(outcome) ==
    /\ download.pc = "stream"
    /\ Written < download.body.len
    /\ outcome \in {"ok", "interrupted", "oserror"}
    /\ outcome = "ok" \/ faults < cap.faults
    /\ faults' = IF outcome = "ok" THEN faults ELSE faults + 1
    /\ IF outcome = "ok"
       THEN /\ saved' = [saved EXCEPT ![download.save_path].upto =
                            Min(@ + ChunkSize, download.body.len)]
            /\ UNCHANGED download
       ELSE IF outcome = "interrupted"
       THEN DownloadReturn(None) /\ UNCHANGED saved
       ELSE DownloadRaise("OSError") /\ UNCHANGED saved
    /\ UNCHANGED <<folderVars, thumbVars, disk, perm, repos, objects, env, cap,
                   syncVars, failed>>
    /\ UNCHANGED commitVars

\* main.py:511-512  one turn of `for chunk in iter_content(...): f.write(chunk)`:
\* the chunk arrives and is written, or the stream is interrupted
\* (a RequestException, main.py:516), or the write fails (an OSError)
DownloadChunk(outcome) ==
    /\ download.pc = "stream"
    /\ Written < download.body.len
    /\ outcome \in {"ok", "interrupted", "oserror"}
    /\ outcome = "ok" \/ faults < cap.faults
    /\ faults' = IF outcome = "ok" THEN faults ELSE faults + 1
    /\ IF outcome = "ok"
       THEN /\ saved' = [saved EXCEPT ![download.save_path].upto =
                            Min(@ + ChunkSize, download.body.len)]
            /\ UNCHANGED download
       ELSE IF outcome = "interrupted"
       THEN DownloadReturn("Download Failed") /\ UNCHANGED saved
       ELSE DownloadRaise("OSError") /\ UNCHANGED saved
    /\ UNCHANGED <<folderVars, thumbVars, disk, perm, repos, objects, env, cap,
                   syncVars, failed>>
    /\ UNCHANGED commitVars

\* main.py:510-514  the stream is over: the file is closed, "Success"
DownloadFinish ==
    /\ download.pc = "stream"
    /\ Written = download.body.len
    /\ DownloadReturn("Success")
    /\ UNCHANGED <<folderVars, thumbVars, worldVars, syncVars, failed, saved>>
    /\ UNCHANGED commitVars

\* another client writes or deletes the object the download is about to
\* request
EnvFetchRemoteWrite(c) ==
    /\ EnvStep
    /\ download.pc \in {"meta", "content"}
    /\ download.repo_name \in repos
    /\ objects[DownloadObject] # c
    /\ objects' = [objects EXCEPT ![DownloadObject] = c]
    /\ UNCHANGED <<disk, perm, repos>>

\* DashboardPage.__init__ over a stored configuration whose folders were
\* backed up in part: "2024_x.png" was never uploaded
InitDownload ==
    /\ config \in {save_folders_to_config(vf) : vf \in ThumbFolders}
    /\ virtual_folders = load_folders_from_config(config)
    /\ auth \in BOOLEAN
    /\ current_folder = None
    /\ file_widgets = <<>>
    /\ cache = WarmCache
    /\ pool = EmptyBag
    /\ signals = EmptyBag
    /\ requests = {}
    /\ disk = [p \in Paths |-> [len |-> 21]]
    /\ perm = [p \in Paths |-> TRUE]
    /\ repos = Folders
    /\ objects = [o \in Folders \X Names |->
                    IF o = <<"trip", "x.png">> THEN [len |-> 20000]
                    ELSE IF o = <<"trip_2024", "x.png">> THEN [len |-> 0]
                    ELSE Absent]
    /\ env = 0
    /\ faults = 0
    /\ cap = [runs |-> 0, env |-> MaxEnv, faults |-> MaxFaults, nest |-> 0]
    /\ failed = {}
    /\ InitFetch
    /\ SyncIdle
    /\ folder_list = FolderItems(config)
    /\ CommiterIdle

NextDownload ==
    \/ \E f \in DOMAIN virtual_folders : on_folder_selected(f)
    \/ \E p \in Paths, d \in Dests \cup {None} : handle_download_request(p, d)
    \/ \E status \in {200, 404} \cup FaultStatuses, u \in BOOLEAN : DownloadMeta(status, u)
    \/ \E status \in {200, 404} \cup FaultStatuses : DownloadContent(status)
    \/ \E ok \in BOOLEAN : DownloadOpen(ok)
    \/ \E o \in {"ok", "interrupted", "oserror"} : DownloadChunk(o)
    \/ DownloadFinish
    \/ \E c \in {[len |-> 21], Absent} : EnvFetchRemoteWrite(c)

SpecDownload == InitDownload /\ [][NextDownload]_vars

\* the last download went as far as asking the remote, and is over
DownloadEnded ==
    download.pc \in {"done", "crashed"} /\ download.save_path # None

\* the destination holds all the bytes the remote served
DownloadComplete ==
    saved[download.save_path] = Prefix(download.body, download.body.len)

\* the download told its caller that it failed: a dialog, or the exception
\* that left the slot
DownloadErrorSignalled ==
    download.report \in {"Download Failed", "Download Error", "OSError"}

\* C13: every download that is over either reported success with the
\* destination holding the complete remote content, or signalled an error;
\* a destination left truncated always comes with an error.
C13_DownloadAllOrNothing ==
    DownloadEnded =>
        \/ download.report = "Success" /\ DownloadComplete
        \/ DownloadErrorSignalled

\* a download interrupted in the middle of the stream: the destination is
\* truncated and "Download Failed" was shown
C13_Witness ==
    /\ DownloadEnded
    /\ download.report = "Download Failed"
    /\ Written > 0 /\ Written < download.body.len


(***************************************************************************)
(* What a sync did, read off its history.                                  *)
(***************************************************************************)
Events(op) == SelectSeq(log, LAMBDA e : e.op = op)
Happened(op) == \E k \in 1..Len(log) : log[k].op = op

\* the values passed to self.progress.setValue, in order
Progress == [k \in 1..Len(Events("progress")) |-> Events("progress")[k].val]

\* a sync was started and is over
SyncEnded == run > 0 /\ pc \in {"idle", "crashed"}

\* the sync told the user how it ended
Reported(what) == \E k \in 1..Len(log) : log[k] = Report(what)
EndedWithReport == log # <<>> /\ log[Len(log)].op = "report"

\* the bytes the sync read from file number i
ReadOk(i) == \E k \in 1..Len(log) : log[k].op = "read" /\ log[k].i = i /\ log[k].what = "ok"
BytesRead(i) ==
    (CHOOSE e \in {log[k] : k \in 1..Len(log)} :
        e.op = "read" /\ e.i = i /\ e.what = "ok").bytes

\* The hash of some bytes is the content-addressing token Sha: the one the
\* remote reports as the version token of an object holding those bytes.

\* C1: a PUT of a file is issued only if the remote object is absent or
\* its version token, fetched right before, differs from the hash of the
\* file's local bytes.
C1_PutOnlyIfChanged ==
    \A k \in 1..Len(log) :
        log[k].op = "put" => log[k].sha = NoSha \/ log[k].sha # Sha(log[k].bytes)

\* C2: a sync that follows a clean sync of the same folder, with no local
\* and no remote change in between, performs no putObject call.
C2_SecondSyncPutsNothing ==
    (quiet /\ ~dirty) => ~Happened("put")

\* the version token the program holds for a managed file once a sync is
\* over: upload_folder keeps none of its own (the answer to the PUT is
\* dropped, main.py:672-675), so it is the one the remote holds for the
\* object the file is stored as
RemoteVersionToken(f) == Sha(objects[ObjectOf(f)])

\* C3: after a sync of a non-empty folder that completes with no error,
\* every file's version token equals the hash of the bytes read from it
\* during that sync.
C3_TokensMatchAfterSync ==
    (SyncEnded /\ Reported("Backup Complete") /\ Warnings = <<>> /\ ~dirty) =>
        \A i \in 1..Len(Files) :
            ReadOk(i) /\ RemoteVersionToken(Files[i]) = Sha(BytesRead(i))

\* C4: the percents emitted by one sync never decrease, lie in 0..100, and
\* a sync that reports completion emitted 100 last.
C4_ProgressMonotone ==
    /\ \A k \in 1..Len(Progress) : Progress[k] \in 0..100
    /\ \A k \in 2..Len(Progress) : Progress[k - 1] <= Progress[k]
    /\ Reported("Backup Complete") => Progress[Len(Progress)] = 100

Clamp(v) == IF v < 0 THEN 0 ELSE IF v > 100 THEN 100 ELSE v

\* C5: right after a file completes, the percent emitted last equals
\* floor(bytesDoneSoFar * 100 / totalBytes) clamped to 0..100, totalBytes
\* being the sum of the sizes of all files and bytesDoneSoFar the sum of
\* the sizes of the files completed so far.
C5_PercentIsFloorOfRatio ==
    (pc = "events" /\ ~dirty) =>
        Progress[Len(Progress)] =
            Clamp((SumSizes(SubSeq(Files, 1, idx - 1)) * 100) \div SumSizes(Files))

\* the local read of file number i fails: the file is gone or unreadable
\* and the sync got no bytes from it
ReadFails(i) ==
    /\ disk[Files[i]] = Missing \/ ~perm[Files[i]]
    /\ ~ReadOk(i)

\* C6: when the local read of a file fails, the sync still attempts every
\* later file of the folder, records the failed file as an error and ends
\* with a terminal report (stated for syncs the remote never failed).
C6_ReadFailureIsolated ==
    (SyncEnded /\ faults = 0) =>
        \A i \in 1..Len(Files) :
            ReadFails(i) =>
                /\ \E k \in 1..Len(log) : log[k] = Warn(i, "Read Error")
                /\ \A j \in (i + 1)..Len(Files) :
                      \E k \in 1..Len(log) : log[k].op = "read" /\ log[k].i = j
                /\ EndedWithReport

\* the last sync was called on a folder with zero files
EmptySync == SyncEnded /\ caller = "button" /\ Files = <<>>

\* C7 as stated: a sync of a folder with zero files still provisions
\* (asks whether the repository exists), and reports 100% with no error.
C7_EmptyFolderProvisions ==
    EmptySync =>
        /\ Happened("repo_get")
        /\ Progress # <<>> /\ Progress[Len(Progress)] = 100
        /\ Warnings = <<>>

\* C7 as amended: a sync of a folder with zero files reports "Empty" at
\* once and does nothing else: no remote call, no file read, no progress
\* value, no error.
C7_EmptyFolderReportsEmpty ==
    EmptySync => log = <<Report("Empty")>>

C7_Witness ==
    EmptySync /\ log = <<Report("Empty")>> /\ repos = {}

\* provisioning failed: the existence check or the creation did not
\* succeed (no response, or a status that is neither success nor, for the
\* check, not-found)
ProvisioningFailed ==
    \E k \in 1..Len(log) :
        \/ log[k].op = "repo_get" /\ log[k].val \notin {200, 404}
        \/ log[k].op = "repo_create" /\ log[k].val \notin {200, 201}

\* C9: when provisioning fails the job ends as Failed and performs no
\* per-file operation (no local read, no metadata get, no put).
C9_ProvisioningFailureFatal ==
    ProvisioningFailed =>
        /\ ~Happened("read") /\ ~Happened("get") /\ ~Happened("put")
        /\ pc \notin {"provision", "create"} => Reported("Failed")

\* C10: every sync that is over ended with a terminal report, never by an
\* error nobody handled.
C10_EndsWithTerminalReport ==
    SyncEnded => EndedWithReport

\* C11: a sync that ends by reporting completion reports a clean completion
\* only when no file failed: the completion report follows no recorded
\* error.  upload_folder has one completion report, "Backup Complete",
\* which carries no list of failed files.
C11_OutcomeReflectsErrors ==
    (SyncEnded /\ Reported("Backup Complete")) => Warnings = <<>>

\* the requests of a sync, and those the remote answered 401 (credentials
\* rejected)
RemoteOps == {"repo_get", "repo_create", "get", "put"}
AuthErrorAt(k) == log[k].op \in RemoteOps /\ log[k].val = 401

\* C14: once a request of a sync is answered 401, the sync surfaces the
\* failure as the next thing it does and attempts no later file of the
\* folder: no read, metadata get or put of a file after the one the
\* request was for.
C14_AuthErrorFatal ==
    \A k \in 1..Len(log) :
        AuthErrorAt(k) =>
            /\ k < Len(log) => log[k + 1].op \in {"report", "warn"}
            /\ \A l \in (k + 1)..Len(log) :
                  log[l].op \in {"read", "get", "put"} => log[l].i <= log[k].i

\* C15: when the creation of the repository is refused because the
\* repository already exists (the remote answers 422), provisioning counts
\* as done: the sync does not report "Failed" and goes on to the files.
C15_ConflictOnCreateIsSuccess ==
    (\E k \in 1..Len(log) : log[k] = Request("repo_create", 0, 422)) =>
        /\ ~Reported("Failed")
        /\ SyncEnded => Happened("progress")

\* C16: every PUT of a sync comes right after the metadata GET of the same
\* file; it carries the token that GET returned, and carries none exactly
\* when that GET answered not-found (404); a not-found answer is followed
\* by the PUT, not by a recorded error.
C16_PutGuardIsTokenFromGet ==
    /\ \A k \in 1..Len(log) :
          log[k].op = "put" =>
              /\ k > 1 /\ log[k - 1].op = "get" /\ log[k - 1].i = log[k].i
              /\ log[k - 1].val = 200 => log[k].sha = log[k - 1].sha
              /\ log[k].sha = NoSha <=> log[k - 1].val = 404
    /\ \A k \in 1..(Len(log) - 1) :
          (log[k].op = "get" /\ log[k].val = 404) => log[k + 1].op = "put"

\* the metadata GET or the PUT of a file failed: no response, or a status
\* that is not a success (for the GET: neither 200 nor not-found)
RemoteFailureAt(k) ==
    \/ log[k].op = "get" /\ log[k].val \notin {200, 404}
    \/ log[k].op = "put" /\ log[k].val \notin {200, 201}

\* the sync attempted file number j: it tried to read it
Attempted(j) == \E l \in 1..Len(log) : log[l].op = "read" /\ log[l].i = j

\* C17: when the metadata GET or the PUT of a file fails, the sync records
\* an error for that file as the next thing it does, and a sync that is
\* over (not ended by an exception nobody handled) has attempted every
\* later file of the folder.
C17_RemoteFailureIsolated ==
    \A k \in 1..Len(log) :
        RemoteFailureAt(k) =>
            /\ k < Len(log) =>
                  log[k + 1].op = "warn" /\ log[k + 1].i = log[k].i
            /\ (SyncEnded /\ ~Happened("raise")) =>
                  \A j \in (log[k].i + 1)..Len(Files) : Attempted(j)

\* C18: progress advances after every file, failed ones included: a sync
\* that reports completion, provisioning having succeeded and nothing
\* having changed under it, emitted one percent per file between the
\* initial 0 and the final 100, and counted the size of every file in
\* `uploaded`.
C18_FailedFilesCounted ==
    (Reported("Backup Complete") /\ ~ProvisioningFailed /\ ~dirty) =>
        /\ Len(Progress) = Len(Files) + 2
        /\ uploaded = SumSizes(Files)

\* C19: a sync (credentials present, nothing changed under it) of a folder
\* whose files total 0 bytes does no reconciliation (no read, no metadata
\* GET, no PUT), raises no error, and is over with the report "Empty".
C19_ZeroBytesReportsEmpty ==
    (run > 0 /\ auth /\ ~dirty /\ SumSizes(Files) = 0) =>
        /\ ~Happened("read") /\ ~Happened("get") /\ ~Happened("put")
        /\ ~Happened("raise")
        /\ SyncEnded => Reported("Empty")

\* the operations a sync performs on one file, and the file stored at
\* position i of the folder in the configuration
FileOps == {"read", "get", "put"}
StoredFile(i) == ParsePath(config[repo_name][i])

\* C20: a sync works on the files of its folder one at a time in the order
\* the folder stores them: along its history the position of the file
\* worked on never decreases, and the bytes read and put at position i are
\* those of the i-th stored file (the local files all differ and did not
\* change).
C20_StoredOrder ==
    /\ \A k, l \in 1..Len(log) :
          (k < l /\ log[k].op \in FileOps /\ log[l].op \in FileOps) =>
              log[k].i <= log[l].i
    /\ \A k \in 1..Len(log) :
          ((log[k].op = "read" /\ log[k].what = "ok") \/ log[k].op = "put") =>
              log[k].bytes = disk[StoredFile(log[k].i)]

\* a sync that put the first and then the second file of its folder
C20_Witness ==
    /\ SyncEnded /\ Reported("Backup Complete")
    /\ Len(Files) >= 2
    /\ \E k, l \in 1..Len(log) :
          /\ k < l
          /\ log[k].op = "put" /\ log[k].i = 1 /\ log[k].bytes = disk[StoredFile(1)]
          /\ log[l].op = "put" /\ log[l].i = 2 /\ log[l].bytes = disk[StoredFile(2)]

\* every picture under the cache directory lies at the key of the folder
\* and file it was fetched for
KeyedByOrigin ==
    \A k \in DOMAIN cache :
        cache[k] \in AllImages => k = CacheKey(cache[k].repo, cache[k].file)

\* C21: the picture a worker fetched for (folder F, file n) is written to
\* the cache key of (F, n), and a widget that shows a fetched picture
\* (none of the widgets on screen having been filled from the cache) shows
\* the picture of its own file in the folder on screen, whatever folder
\* selections happened between the dispatch and the completion.
C21_ThumbnailGoesToItsRequest ==
    /\ KeyedByOrigin
    /\ (\A r \in requests : ~r.hit) =>
          \A n \in DOMAIN file_widgets :
              file_widgets[n].shown \in AllImages =>
                  file_widgets[n].shown = Image(current_folder, n)

\* C22: a request that finds a file at its cache key finds the picture of
\* its own (folder, filename): no other pair reads or writes that path
\* (stated for a cache in which every picture lies at the key of the pair
\* it was fetched for).
C22_CacheKeyUnique ==
    KeyedByOrigin =>
        \A r \in requests :
            (r.hit /\ r.cached \in AllImages) => r.cached = Image(r.folder, r.name)

\* the metadata request and the content request of the running download
\* both succeeded: the download is at, or past, the opening of its
\* destination
BothRequestsSucceeded == download.body # Absent

C25_DistinctFilesDistinctObjects ==
    \A k, l \in 1..Len(log) :
        (/\ log[k].op = "put" /\ log[k].val \in {200, 201}
         /\ log[l].op = "put" /\ log[l].val \in {200, 201}
         /\ log[k].i # log[l].i) =>
            ObjectOf(Files[log[k].i]) # ObjectOf(Files[log[l].i])

\* the folders whose lists a sync is iterating: the running sync's and
\* those of the syncs suspended in processEvents
RunningFolders ==
    {stack[k].repo_name : k \in 1..Len(stack)}
        \cup (IF pc \in {"idle", "crashed"} THEN {} ELSE {repo_name})

\* C23: from the start of a sync's reconciliation to its terminal report no
\* other sync starts and the file sequence it iterates is not modified,
\* whatever UI events are processed between its files
C23_SyncsDoNotInterleave ==
    [][RunningFolders # {} =>
          /\ run' = run
          /\ \A f \in RunningFolders : virtual_folders'[f] = virtual_folders[f]]_vars

\* every item of the folder list is a folder of the mapping, once
NamesUnique ==
    /\ \A k, l \in 1..Len(folder_list) : folder_list[k] = folder_list[l] => k = l
    /\ {folder_list[k] : k \in 1..Len(folder_list)} = DOMAIN virtual_folders

\* no folder's list holds a path twice
NoPathTwice ==
    \A f \in DOMAIN virtual_folders :
        \A k, l \in 1..Len(virtual_folders[f]) :
            virtual_folders[f][k] = virtual_folders[f][l] => k = l

\* the stored mapping is the mapping in memory
StoreMatches ==
    /\ config = save_folders_to_config(virtual_folders)
    /\ load_folders_from_config(config) = virtual_folders

\* every folder stays, and its list only grows at its end
OnlyAppended ==
    \A f \in DOMAIN virtual_folders :
        /\ f \in DOMAIN virtual_folders'
        /\ Len(virtual_folders'[f]) >= Len(virtual_folders[f])
        /\ SubSeq(virtual_folders'[f], 1, Len(virtual_folders[f])) = virtual_folders[f]

\* C26: after any sequence of create_virtual_folder and add_files_to_folder
\* from an empty configuration, folder names are unique, no folder holds a
\* path twice, paths are only appended, and the stored virtual_folders is the
\* mapping in memory
C26_FolderStoreConsistent ==
    /\ [](NamesUnique /\ NoPathTwice /\ StoreMatches)
    /\ [][OnlyAppended]_vars

\* C26 witness: two folders were created, and of three additions to 'trip'
\* one picked a file it already held
C26_Witness ==
    /\ folder_list = <<"trip_2024", "trip">>
    /\ virtual_folders["trip"] = <<PathB, PathA>>
    /\ run = 3
    /\ pc = "idle"
    /\ config = save_folders_to_config(virtual_folders)

(***************************************************************************)
(* commiter.py: main toggles a line of a file and commits the file, iters  *)
(* times.  A text is the sequence of its characters.                       *)
(***************************************************************************)
NL == "\n"
Quotes == {"'", "\""}

\* how many iterations are asked for
MaxIters == 3

\* the variables of the dashboard, which commiter.py does not touch
dashVars == <<folderVars, thumbVars, disk, perm, repos, objects, env, cap,
              syncVars, failed, fetchVars>>

\* str.splitlines() on a text whose only line boundary is "\n"
\* (commiter.py:86)
RECURSIVE SplitAcc(_, _, _)
SplitAcc(s, cur, acc) ==
    IF s = <<>> THEN (IF cur = <<>> THEN acc ELSE Append(acc, cur))
    ELSE IF Head(s) = NL THEN SplitAcc(Tail(s), <<>>, Append(acc, cur))
    ELSE SplitAcc(Tail(s), Append(cur, Head(s)), acc)
SplitLines(s) == SplitAcc(s, <<>>, <<>>)

\* "\n".join(new_lines), commiter.py:101
RECURSIVE JoinLines(_)
JoinLines(lines) ==
    IF lines = <<>> THEN <<>>
    ELSE IF Len(lines) = 1 THEN lines[1]
    ELSE lines[1] \o <<NL>> \o JoinLines(Tail(lines))

\* normalize_line, commiter.py:31-35
normalize_line(s) ==
    IF Len(s) >= 2 /\ s[1] = s[Len(s)] /\ s[1] \in Quotes
    THEN SubSeq(s, 2, Len(s) - 1)
    ELSE s

\* commiter.py:87
has_line(txt) ==
    \E k \in 1..Len(SplitLines(txt)) : SplitLines(txt)[k] = target_line

\* the text main writes back, commiter.py:90-104
ToggledText(txt) ==
    IF ~has_line(txt)
    THEN (IF txt # <<>> /\ txt[Len(txt)] # NL THEN txt \o <<NL>> ELSE txt)
             \o target_line \o <<NL>>
    ELSE LET new_lines == SelectSeq(SplitLines(txt), LAMBDA ln : ln # target_line)
             out == JoinLines(new_lines)
         IN  IF new_lines # <<>> THEN out \o <<NL>> ELSE out

\* an entry of the history: a read or write of the file or a git command,
\* in iteration i (0: before the loop); data is the file's text before a
\* read, the text written, or the text staged or committed
Op(op, ok, data) == [op |-> op, i |-> loop_i, ok |-> ok, data |-> data]

\* the process ends with status 1: sys.exit(1), or an exception no
\* handler catches
Exit1 ==
    /\ main_pc' = "exited"
    /\ exit_status' = 1

\* ensure_file, commiter.py:26-29 and 60-61
ensure_file ==
    /\ main_pc = "ensure"
    /\ IF ~toggle_file.exists
       THEN /\ toggle_file' = [exists |-> TRUE, readable |-> TRUE, writable |-> TRUE,
                               content |-> <<>>]
            /\ ops' = Append(ops, Op("write", TRUE, <<>>))
       ELSE UNCHANGED <<toggle_file, ops>>
    /\ main_pc' = "repo_check"
    /\ UNCHANGED <<loop_i, iters, target_line, text, git, exit_status, faults, dashVars>>

\* commiter.py:63-65 and the head of the loop, commiter.py:84
is_git_repo ==
    /\ main_pc = "repo_check"
    /\ IF ~git.is_repo
       THEN Exit1 /\ UNCHANGED loop_i
       ELSE IF iters >= 1
       THEN main_pc' = "read" /\ loop_i' = 1 /\ UNCHANGED exit_status
       ELSE main_pc' = "done" /\ exit_status' = 0 /\ UNCHANGED loop_i
    /\ UNCHANGED <<iters, target_line, text, toggle_file, git, ops, faults, dashVars>>

\* read_file_text, commiter.py:37-45 and 85: a file that cannot be read is
\* emptied; when that write fails too, its exception ends the process
read_file_text ==
    /\ main_pc = "read"
    /\ IF toggle_file.exists /\ toggle_file.readable
       THEN /\ text' = toggle_file.content
            /\ ops' = Append(ops, Op("read", TRUE, toggle_file.content))
            /\ main_pc' = "toggle"
            /\ UNCHANGED <<toggle_file, exit_status>>
       ELSE IF toggle_file.writable
       THEN /\ toggle_file' = [toggle_file EXCEPT !.content = <<>>]
            /\ text' = <<>>
            /\ ops' = ops \o <<Op("read", FALSE, toggle_file.content),
                               Op("write", TRUE, <<>>)>>
            /\ main_pc' = "toggle"
            /\ UNCHANGED exit_status
       ELSE /\ ops' = ops \o <<Op("read", FALSE, toggle_file.content),
                               Op("write", FALSE, <<>>)>>
            /\ Exit1
            /\ UNCHANGED <<toggle_file, text>>
    /\ UNCHANGED <<loop_i, iters, target_line, git, faults, dashVars>>

\* commiter.py:90-106: the toggled text is written back
write_file_text ==
    /\ main_pc = "toggle"
    /\ IF toggle_file.writable
       THEN /\ toggle_file' = [toggle_file EXCEPT !.content = ToggledText(text)]
            /\ text' = IF has_line(text) THEN text ELSE ToggledText(text)
            /\ ops' = Append(ops, Op("write", TRUE, ToggledText(text)))
            /\ main_pc' = "add"
            /\ UNCHANGED exit_status
       ELSE /\ ops' = Append(ops, Op("write", FALSE, ToggledText(text)))
            /\ text' = IF has_line(text) THEN text ELSE ToggledText(text)
            /\ Exit1
            /\ UNCHANGED toggle_file
    /\ UNCHANGED <<loop_i, iters, target_line, git, faults, dashVars>>

\* git add, commiter.py:18-20: it fails on a file git cannot read, and for
\* reasons outside the program
git_add(ok) ==
    /\ main_pc = "add"
    /\ ok => toggle_file.readable
    /\ (~ok /\ toggle_file.readable) => faults < cap.faults
    /\ faults' = IF ~ok /\ toggle_file.readable THEN faults + 1 ELSE faults
    /\ IF ok
       THEN /\ git' = [git EXCEPT !.index = toggle_file.content]
            /\ ops' = Append(ops, Op("add", TRUE, toggle_file.content))
            /\ main_pc' = "commit"
            /\ UNCHANGED exit_status
       ELSE /\ ops' = Append(ops, Op("add", FALSE, toggle_file.content))
            /\ Exit1
            /\ UNCHANGED git
    /\ UNCHANGED <<loop_i, iters, target_line, text, toggle_file, dashVars>>

\* git commit, commiter.py:21-24: it fails when nothing is staged that
\* differs from HEAD, and for reasons outside the program
git_commit(ok) ==
    /\ main_pc = "commit"
    /\ ok => git.index # git.head
    /\ (~ok /\ git.index # git.head) => faults < cap.faults
    /\ faults' = IF ~ok /\ git.index # git.head THEN faults + 1 ELSE faults
    /\ IF ok
       THEN /\ git' = [git EXCEPT !.head = git.index]
            /\ ops' = Append(ops, Op("commit", TRUE, git.index))
            /\ main_pc' = "sleep"
            /\ UNCHANGED exit_status
       ELSE /\ ops' = Append(ops, Op("commit", FALSE, git.index))
            /\ Exit1
            /\ UNCHANGED git
    /\ UNCHANGED <<loop_i, iters, target_line, text, toggle_file, dashVars>>

\* commiter.py:116 and the head of the loop, commiter.py:84
sleep ==
    /\ main_pc = "sleep"
    /\ IF loop_i < iters
       THEN loop_i' = loop_i + 1 /\ main_pc' = "read" /\ UNCHANGED exit_status
       ELSE main_pc' = "done" /\ exit_status' = 0 /\ UNCHANGED loop_i
    /\ UNCHANGED <<iters, target_line, text, toggle_file, git, ops, faults, dashVars>>

\* the values of --line, and the files and repositories main is started on
ArgLines == {<<"t">>, <<"'", "t", "'">>}
StartTexts ==
    {<<>>, <<"x", NL>>, <<"x">>, <<"t", NL>>, <<"x", NL, "t", NL>>,
     <<"t", NL, "x", NL, "t">>, <<"t", "x", NL>>}
StartFiles ==
    {NoToggleFile}
        \cup {[exists |-> TRUE, readable |-> m[1], writable |-> m[2], content |-> c] :
                 m \in {<<TRUE, TRUE>>, <<FALSE, TRUE>>, <<TRUE, FALSE>>,
                       <<FALSE, FALSE>>},
                 c \in StartTexts}

\* main is started: the dashboard is not part of this run
InitCommiter ==
    /\ config = [f \in {} |-> <<>>]
    /\ InitMachine
    /\ auth = FALSE
    /\ cap = [runs |-> 0, env |-> 0, faults |-> MaxFaults, nest |-> 0]
    /\ main_pc = "ensure"
    /\ loop_i = 0
    /\ iters \in 0..MaxIters
    /\ target_line \in {normalize_line(l) : l \in ArgLines}
    /\ text = <<>>
    /\ toggle_file \in StartFiles
    /\ git \in {[is_repo |-> r, head |-> h, index |-> h] :
                   r \in BOOLEAN,
                   h \in {Untracked, toggle_file.content, <<"x", NL>>}}
    /\ ops = <<>>
    /\ exit_status = -1

NextCommiter ==
    \/ ensure_file
    \/ is_git_repo
    \/ read_file_text
    \/ write_file_text
    \/ \E ok \in BOOLEAN : git_add(ok)
    \/ \E ok \in BOOLEAN : git_commit(ok)
    \/ sleep

SpecCommiter == InitCommiter /\ [][NextCommiter]_vars

\* the file's text when the running iteration read it
FileBefore ==
    LET reads == {k \in 1..Len(ops) : ops[k].op = "read"}
    IN  ops[CHOOSE k \in reads : \A l \in reads : l <= k].data

\* the toggled lines: one copy of the target after the others when no line
\* is the target, else the lines that are not the target
ToggleOfLines(lines) ==
    IF \A k \in 1..Len(lines) : lines[k] # target_line
    THEN Append(lines, target_line)
    ELSE SelectSeq(lines, LAMBDA ln : ln # target_line)

\* how many lines of a text are the target
Copies(txt) == Len(SelectSeq(SplitLines(txt), LAMBDA ln : ln = target_line))

\* the iteration wrote the file back
WroteBack == main_pc = "toggle" /\ main_pc' = "add"

\* C27: each iteration of commiter.main toggles the target line: it appends
\* one copy as the last line when no line equals the target, else removes
\* every line equal to it, and keeps all other lines unchanged and in order;
\* from a file without the target line, after k iterations the line is
\* there, once, exactly when k is odd
C27_IterationToggles ==
    /\ [][WroteBack =>
            SplitLines(toggle_file'.content) = ToggleOfLines(SplitLines(FileBefore))]_vars
    /\ []((main_pc = "sleep" /\ Copies(ops[CHOOSE k \in 1..Len(ops) : ops[k].op = "read"
                                                  /\ ops[k].i = 1].data) = 0) =>
             Copies(toggle_file.content) = loop_i % 2)

\* the file writes and git commands of iteration n, in order
IterOps(n) ==
    LET es == SelectSeq(ops, LAMBDA e : e.i = n /\ e.op # "read")
    IN  [k \in 1..Len(es) |-> es[k].op]

IterationOver(n) == loop_i > n \/ (loop_i = n /\ main_pc \in {"sleep", "done"})

\* C28: every iteration of commiter.main does one file write, then one git
\* add, then one git commit; a failing git add or git commit ends the
\* program with status 1 and nothing is written or committed after it;
\* outside a git repository the program ends with status 1 before the first
\* iteration
C28_WriteAddCommit ==
    /\ \A n \in 1..loop_i :
          /\ Len(IterOps(n)) <= 3
          /\ IterOps(n) = SubSeq(<<"write", "add", "commit">>, 1, Len(IterOps(n)))
          /\ IterationOver(n) => Len(IterOps(n)) = 3
    /\ \A k \in 1..Len(ops) :
          (ops[k].op \in {"add", "commit"} /\ ~ops[k].ok) =>
              k = Len(ops) /\ exit_status = 1
    /\ (~git.is_repo /\ main_pc \notin {"none", "ensure", "repo_check"}) =>
          /\ exit_status = 1
          /\ loop_i = 0
          /\ \A k \in 1..Len(ops) : ops[k].i = 0

====
